---------------------------- MODULE Spec2Model ----------------------------
(***************************************************************************)
(* Price tracker: the price store (src/src/database/db_manager.py), the   *)
(* scraper layer (src/src/scrapers/) and the tracking cycle                *)
(* (src/price_tracker.py).                                                 *)
(*                                                                         *)
(* Prices are exact amounts in cents (399.99 is 39999); the percentage of  *)
(* a drop is compared in exact arithmetic, 100*diff against pct*previous.  *)
(* Binary floating-point rounding of the Python floats is not modelled.    *)
(*                                                                         *)
(* The wall clock (datetime.now()) is the variable now; it never runs      *)
(* backwards here, and two records may be stamped at the same instant.     *)
(* Only the order and the equality of timestamps reach the code that is    *)
(* modelled, so the clock counts the instants at which a record is         *)
(* stamped: it advances only past an instant that some record carries (or  *)
(* that a process has read for the record it is about to insert).          *)
(***************************************************************************)
EXTENDS Integers, Sequences, FiniteSets, TLC

VARIABLES
    products,       \* table products: sequence of names, id = position
    price_history,  \* table price_history: sequence of rows, id = position
    now,            \* wall clock read by datetime.now()
    call,           \* the last call made directly on the DatabaseManager
    pc,             \* where the tracking run stands
    env,            \* config.py values of the running tracker process
    product_i,      \* track_all_products: index into PRODUCTS_TO_TRACK
    url_i,          \* track_product: index into the product's urls
    attempt,        \* fetch_page: the loop variable
    requests,       \* session.get calls made for the current url
    soup,           \* scrape_product: the fetched page
    product_data,   \* track_product: the scraped dict
    results,        \* track_product: the summary being built
    all_results,    \* track_all_products: the summaries so far
    notified,       \* send_price_drop_alert calls of this run, with their outcome
    cycles,         \* tracking runs completed
    visited,        \* (product, url) positions whose loop body was entered in this run
    outcomes,       \* the kinds of failure met at the pairs of this run
    last,           \* how the pair just left ended ("" inside a pair)
    rows_at_start,  \* number of price_history rows when the current pair was entered
    writers         \* client processes of one database file: where each stands in
                    \* add_price_record / check_price_drop, and its locals

storeVars == <<products, price_history, now>>
runVars == <<pc, env, product_i, url_i, attempt, requests, soup, product_data,
             results, all_results, notified, cycles, visited, outcomes, last,
             rows_at_start>>
vars == <<products, price_history, now, call, pc, env, product_i, url_i, attempt,
          requests, soup, product_data, results, all_results, notified, cycles,
          visited, outcomes, last, rows_at_start, writers>>

---------------------------------------------------------------------------
(* Bounds *)

MaxRecords == 3
MaxCycles == 2
MaxTailParts == 2

---------------------------------------------------------------------------
(* Values *)

ProductNames == {"iPhone 15 Pro", "Sony WH-1000XM5 Headphones"}
SiteNames == {"Amazon", "Best Buy"}

\* prices in cents the store is driven with: 0.00, 96.00, 100.00
StorePrices == {0, 9600, 10000}

\* (percentage_threshold, amount_threshold in cents) pairs given to check_price_drop
StoreThresholds == {<<5, 1000>>, <<4, 1000>>, <<5, 400>>, <<-5, -500>>}

\* the (product, site) pairs the store is driven with
StorePairs == {<<"iPhone 15 Pro", "Amazon">>, <<"iPhone 15 Pro", "Best Buy">>,
               <<"Sony WH-1000XM5 Headphones", "Amazon">>}

\* the processes that use one database file at a time (a scheduled tracker
\* and a tracker started by hand), the pairs and prices they record, and
\* the (percentage, amount in cents) thresholds they check with
Writers == {1, 2}
WriterPairs == {<<"iPhone 15 Pro", "Amazon">>, <<"iPhone 15 Pro", "Best Buy">>}
WriterPrices == {9600, 10000}
WriterThresholds == <<4, 1000>>

NoneValue == [kind |-> "None"]
ErrorValue(what) == [kind |-> "Error", error |-> what]

\* a process that is not inside a call of the store
IdleWriter == [pc |-> "idle", product |-> "", site |-> "", price |-> 0,
               last_price_row |-> << >>, price_changed |-> FALSE, timestamp |-> 0,
               row |-> 0, drop_info |-> NoneValue]

---------------------------------------------------------------------------
(* DatabaseManager *)

HasProduct(prods, name) == \E i \in DOMAIN prods : prods[i] = name

\* SELECT id FROM products WHERE name = ?
ProductId(prods, name) == CHOOSE i \in DOMAIN prods : prods[i] = name

\* add_product on a table without UNIQUE(name): the INSERT always adds a row
add_product_without_unique(prods, name) == Append(prods, name)

\* INSERT OR IGNORE INTO products (name) VALUES (?)
add_product(prods, name) ==
    IF HasProduct(prods, name) THEN prods ELSE Append(prods, name)

\* RowsOf with the site left out of the WHERE clause
RowsOfAnySite(ph, pid, site) ==
    {i \in DOMAIN ph : ph[i].product_id = pid}

\* rows of price_history WHERE product_id = ? AND site = ?
RowsOf(ph, pid, site) ==
    {i \in DOMAIN ph : ph[i].product_id = pid /\ ph[i].site = site}

\* ScansBefore for ORDER BY timestamp ASC
ScansOldestFirst(ph, i, j) ==
    \/ ph[i].timestamp < ph[j].timestamp
    \/ ph[i].timestamp = ph[j].timestamp /\ i < j

\* ScansBefore with rows of one timestamp taken in insertion order
ScansTiesOldestFirst(ph, i, j) ==
    \/ ph[i].timestamp > ph[j].timestamp
    \/ ph[i].timestamp = ph[j].timestamp /\ i < j

\* ORDER BY timestamp DESC as SQLite runs it on this schema: both queries are
\* planned as a backward scan of idx_price_history_product (product_id,
\* timestamp), whose entries with equal keys are kept in rowid order.
ScansBefore(ph, i, j) ==
    \/ ph[i].timestamp > ph[j].timestamp
    \/ ph[i].timestamp = ph[j].timestamp /\ i > j

FirstScanned(ph, S) == CHOOSE i \in S : \A j \in S \ {i} : ScansBefore(ph, i, j)

RECURSIVE OrderByTimestampDesc(_, _, _)
\* the first `limit` row ids of S in scan order
OrderByTimestampDesc(ph, S, limit) ==
    IF S = {} \/ limit = 0 THEN << >>
    ELSE LET i == FirstScanned(ph, S)
         IN  <<i>> \o OrderByTimestampDesc(ph, S \ {i}, limit - 1)

\* price_changed = last_price_row is None or last_price_row[0] != price
PriceChanged(ph, pid, site, price) ==
    LET last_price_row == OrderByTimestampDesc(ph, RowsOf(ph, pid, site), 1)
    IN  last_price_row = << >> \/ ph[last_price_row[1]].price # price

\* the sqlite3 module binds a Python bool as the integer 1 or 0; the column
\* (BOOLEAN, numeric affinity) keeps the integer
SqlBoolean(b) == IF b THEN 1 ELSE 0

\* NewRow with the column default (1) for available
NewRowDefaultAvailable(ph, pid, site, price, title, url, available, ts) ==
    [id |-> Len(ph) + 1, product_id |-> pid, site |-> site, price |-> price,
     title |-> title, url |-> url, available |-> 1, timestamp |-> ts]

\* the row the INSERT writes.  A float is stored as an 8-byte IEEE REAL, the
\* representation it has in Python, and a str as its text: both are read
\* back as they were bound.
NewRow(ph, pid, site, price, title, url, available, ts) ==
    [id |-> Len(ph) + 1, product_id |-> pid, site |-> site, price |-> price,
     title |-> title, url |-> url, available |-> SqlBoolean(available),
     timestamp |-> ts]

\* percentage_drop >= percentage_threshold, with
\* percentage_drop = (price_diff / previous_price) * 100 and previous_price # 0
PercentageAtLeast(price_diff, previous_price, pct) ==
    IF previous_price > 0
    THEN 100 * price_diff >= pct * previous_price
    ELSE 100 * price_diff <= pct * previous_price

\* DropQualifies with `and` for `or`
DropQualifiesBoth(price_diff, previous_price, pct, amt) ==
    price_diff >= amt /\ PercentageAtLeast(price_diff, previous_price, pct)

\* price_diff >= amount_threshold or percentage_drop >= percentage_threshold
DropQualifies(price_diff, previous_price, pct, amt) ==
    price_diff >= amt \/ PercentageAtLeast(price_diff, previous_price, pct)

\* SelectPrices with the site left out of the WHERE clause
SelectPricesAnySite(prods, ph, name, site) ==
    LET S == IF HasProduct(prods, name)
             THEN {i \in DOMAIN ph : ph[i].product_id = ProductId(prods, name)}
             ELSE {}
    IN  OrderByTimestampDesc(ph, S, 2)

\* SELECT price, timestamp FROM price_history ph JOIN products p ...
\* WHERE p.name = ? AND ph.site = ? ORDER BY timestamp DESC LIMIT 2
SelectPrices(prods, ph, name, site) ==
    LET S == IF HasProduct(prods, name)
             THEN RowsOf(ph, ProductId(prods, name), site) ELSE {}
    IN  OrderByTimestampDesc(ph, S, 2)

\* DatabaseManager.check_price_drop: None, a drop_info dict, or the
\* ZeroDivisionError of price_diff / previous_price
check_price_drop(prods, ph, name, site, pct, amt) ==
    LET prices == SelectPrices(prods, ph, name, site)
    IN  IF Len(prices) < 2 THEN NoneValue
        ELSE LET current_price == ph[prices[1]].price
                 previous_price == ph[prices[2]].price
                 price_diff == previous_price - current_price
             IN  IF previous_price = 0 THEN ErrorValue("ZeroDivisionError")
                 ELSE IF DropQualifies(price_diff, previous_price, pct, amt)
                 THEN [kind |-> "DropEvent",
                       product |-> name,
                       site |-> site,
                       previous_price |-> previous_price,
                       current_price |-> current_price,
                       amount_drop |-> price_diff,
                       percentage_drop |-> <<100 * price_diff, previous_price>>,
                       timestamp |-> ph[prices[1]].timestamp]
                 ELSE NoneValue

\* Time is counted in units of half a day: a day is two units, and the UTC
\* clock of SQLite's 'now' is ahead of the local clock of datetime.now() by
\* the offset of the process's time zone, here one unit either way or none.
DayLength == 2
UtcOffsets == {-1, 0, 1}

\* datetime('now', '-' || days || ' days'): the UTC time, less the days, as
\* an instant on the scale of the stored (local) timestamps
Cutoff(time, utc_offset, days) == time + utc_offset - days * DayLength

\* WHERE p.name = ? AND datetime(ph.timestamp) >= datetime('now', '-days days')
\* [AND ph.site = ?]: cutoff is the instant the right-hand side denotes on
\* the scale of the stored timestamps; site is << >> when no site is given
HistoryRows(prods, ph, name, site, cutoff) ==
    IF ~HasProduct(prods, name) THEN {}
    ELSE {i \in DOMAIN ph :
            /\ ph[i].product_id = ProductId(prods, name)
            /\ ph[i].timestamp >= cutoff
            /\ site # << >> => ph[i].site = site[1]}

\* DatabaseManager.get_price_history: the rows of the DataFrame, in order
get_price_history(prods, ph, name, site, cutoff) ==
    LET S == HistoryRows(prods, ph, name, site, cutoff)
        ids == OrderByTimestampDesc(ph, S, Cardinality(S))
    IN  [k \in DOMAIN ids |->
            [timestamp |-> ph[ids[k]].timestamp, site |-> ph[ids[k]].site,
             price |-> ph[ids[k]].price, title |-> ph[ids[k]].title,
             url |-> ph[ids[k]].url, available |-> ph[ids[k]].available]]

\* LatestIds with the subquery's WHERE p2.name = ? left out
LatestIdsAnyProduct(prods, ph, name) ==
    {i \in DOMAIN ph : \A j \in DOMAIN ph : ph[j].site = ph[i].site => j <= i}

\* SELECT MAX(ph2.id) ... WHERE p2.name = ? GROUP BY ph2.site
LatestIds(prods, ph, name) ==
    LET S == IF HasProduct(prods, name)
             THEN {i \in DOMAIN ph : ph[i].product_id = ProductId(prods, name)}
             ELSE {}
    IN  {i \in S : \A j \in S : ph[j].site = ph[i].site => j <= i}

\* DatabaseManager.get_latest_prices: the dict site -> {price, timestamp}
get_latest_prices(prods, ph, name) ==
    LET S == IF HasProduct(prods, name)
             THEN {i \in DOMAIN ph : ph[i].product_id = ProductId(prods, name)}
             ELSE {}
        ids == S \cap LatestIds(prods, ph, name)
    IN  [site \in {ph[i].site : i \in ids} |->
            LET i == CHOOSE i \in ids : ph[i].site = site
            IN  [price |-> ph[i].price, timestamp |-> ph[i].timestamp]]

---------------------------------------------------------------------------
(* config.py *)

\* A URL is the sequence of its parts; a substring test for a site pattern
\* is a test for a part that equals the pattern.
AmazonUrl == <<"https://www.", "amazon.com", "/dp/B0CHX1W1XY">>
BestBuyUrl == <<"https://www.", "BestBuy.com",
                "/site/sony-wh-1000xm5-wireless-noise-canceling-headphones/6505727.p">>
UnknownUrl == <<"https://", "unknown-shop.example", "/item">>

\* the configuration the runs are followed with: the two products of
\* config.py, the first with its Amazon url and the url of a site that has no
\* scraper, the second with its Best Buy url, the host spelt with capitals
PRODUCTS_TO_TRACK ==
    << [name |-> "iPhone 15 Pro",
        urls |-> << <<"amazon", AmazonUrl>>, <<"other", UnknownUrl>> >>],
       [name |-> "Sony WH-1000XM5 Headphones",
        urls |-> << <<"bestbuy", BestBuyUrl>> >>] >>

\* (PRICE_DROP_PERCENTAGE, PRICE_DROP_AMOUNT in cents): the defaults of
\* config.py, and a pair of negative values
ConfigThresholds == {<<5, 1000>>, <<-5, -500>>}

\* MAX_RETRIES: a single attempt, and the default of config.py
RetryChoices == {1, 3}

\* MAX_RETRIES, PRICE_DROP_PERCENTAGE and PRICE_DROP_AMOUNT as a tracker
\* process may read them from its environment
Environments ==
    {[max_retries |-> n, pct |-> th[1], amt |-> th[2]] :
        n \in RetryChoices, th \in ConfigThresholds}

\* no tracker process is running
NoEnv == [max_retries |-> 0, pct |-> 0, amt |-> 0]

---------------------------------------------------------------------------
(* Scrapers *)

\* url.lower()
LowerPart(part) == IF part = "BestBuy.com" THEN "bestbuy.com" ELSE part
url_lower(url) == [i \in DOMAIN url |-> LowerPart(url[i])]

\* pattern in url_lower
InUrl(pattern, url) == \E i \in DOMAIN url : url_lower(url)[i] = pattern

\* ScraperFactory.get_scraper
get_scraper(url) ==
    IF InUrl("amazon.com", url) THEN "AmazonScraper"
    ELSE IF InUrl("bestbuy.com", url) THEN "BestBuyScraper"
    ELSE "None"

\* get_site_name with the test made on url, not on url.lower()
get_site_name_no_lower(url) ==
    IF \E i \in DOMAIN url : url[i] = "amazon.com" THEN "Amazon"
    ELSE IF \E i \in DOMAIN url : url[i] = "bestbuy.com" THEN "Best Buy"
    ELSE "Unknown"

\* ScraperFactory.get_site_name
get_site_name(url) ==
    IF InUrl("amazon.com", url) THEN "Amazon"
    ELSE IF InUrl("bestbuy.com", url) THEN "Best Buy"
    ELSE "Unknown"

\* A fetched page: the texts of the price elements its selectors find, in
\* selector order; the content of the product:price:amount meta tag; the
\* title found, if any; whether an out-of-stock marker is found.
Absent == "absent"

Pages ==
    { [price_elements |-> <<"$100.00">>, meta_price |-> Absent,
       title |-> "Apple iPhone 15 Pro", out_of_stock |-> FALSE],
      [price_elements |-> <<"Currently unavailable", "$96.00">>, meta_price |-> Absent,
       title |-> Absent, out_of_stock |-> TRUE],
      [price_elements |-> <<"$0.00">>, meta_price |-> Absent,
       title |-> "Apple iPhone 15 Pro", out_of_stock |-> FALSE],
      [price_elements |-> << >>, meta_price |-> Absent,
       title |-> "Apple iPhone 15 Pro", out_of_stock |-> FALSE],
      [price_elements |-> <<"Currently unavailable">>, meta_price |-> "96.00",
       title |-> "Apple iPhone 15 Pro", out_of_stock |-> FALSE],
      [price_elements |-> << >>, meta_price |-> "-5.00",
       title |-> "Apple iPhone 15 Pro", out_of_stock |-> FALSE] }

\* re.search(r'[\d,]+\.?\d*', text.replace(',', '')) and float() of the match,
\* in cents: << >> when the text holds no digit
ParsePrice(text) ==
    CASE text = "$100.00" -> <<10000>>
      [] text = "$96.00" -> <<9600>>
      [] text = "96.00" -> <<9600>>
      [] text = "$0.00" -> <<0>>
      [] text = "-5.00" -> <<500>>
      [] OTHER -> << >>

\* float(meta_price['content']), in cents: << >> on ValueError
ParseFloat(text) ==
    CASE text = "96.00" -> <<9600>>
      [] text = "-5.00" -> <<-500>>
      [] OTHER -> << >>

RECURSIVE FirstPrice(_)
\* the selector loop: the first element whose text parses
FirstPrice(texts) ==
    IF texts = << >> THEN << >>
    ELSE IF ParsePrice(Head(texts)) # << >> THEN ParsePrice(Head(texts))
    ELSE FirstPrice(Tail(texts))

\* AmazonScraper.extract_price / BestBuyScraper.extract_price: << >> is None
extract_price(scraper, page) ==
    LET found == FirstPrice(page.price_elements)
    IN  IF found # << >> THEN found
        ELSE IF scraper = "BestBuyScraper" /\ page.meta_price # Absent
        THEN ParseFloat(page.meta_price)
        ELSE << >>

\* extract_title: << >> is None
extract_title(scraper, page) ==
    IF page.title = Absent THEN << >> ELSE <<page.title>>

\* extract_availability
extract_availability(scraper, page) == ~page.out_of_stock

\* scrape_product with `price or 0` for the check of None
scrape_product_price_or_zero(scraper, url, page, time) ==
    LET price == extract_price(scraper, page)
        title == extract_title(scraper, page)
    IN  << [price |-> IF price = << >> THEN 0 ELSE price[1],
            title |-> IF title = << >> THEN "Unknown Product" ELSE title[1],
            url |-> url,
            available |-> extract_availability(scraper, page),
            timestamp |-> time] >>

\* BaseScraper.scrape_product after a successful fetch: << >> is None
scrape_product(scraper, url, page, time) ==
    LET price == extract_price(scraper, page)
        title == extract_title(scraper, page)
    IN  IF price = << >> THEN << >>
        ELSE << [price |-> price[1],
                 title |-> IF title = << >> THEN "Unknown Product" ELSE title[1],
                 url |-> url,
                 available |-> extract_availability(scraper, page),
                 timestamp |-> time] >>

\* time.sleep(random.uniform(1, 3)) before a request: the clock is then past
\* every instant a record of this store was stamped at
AfterSleep(ph, time) ==
    IF \E i \in DOMAIN ph : ph[i].timestamp = time THEN time + 1 ELSE time

\* LastAttempt off by one
LastAttemptOffByOne(att, max_retries) == att = max_retries

\* fetch_page: the attempt that failed was the last one
LastAttempt(att, max_retries) == att = max_retries - 1

---------------------------------------------------------------------------
(* Initial state: a new, empty database *)

Init ==
    /\ products = << >>
    /\ price_history = << >>
    /\ now = 0
    /\ call = [op |-> "none"]
    /\ pc = "idle"
    /\ env = NoEnv
    /\ product_i = 0
    /\ url_i = 0
    /\ attempt = 0
    /\ requests = 0
    /\ soup = << >>
    /\ product_data = << >>
    /\ results = << >>
    /\ all_results = << >>
    /\ notified = << >>
    /\ cycles = 0
    /\ visited = << >>
    /\ outcomes = {}
    /\ last = ""
    /\ rows_at_start = 0
    /\ writers = [w \in Writers |-> IdleWriter]

\* the wall clock advances
Tick ==
    /\ \/ \E i \in DOMAIN price_history : price_history[i].timestamp = now
       \/ \E w \in Writers : writers[w].pc = "execute" /\ writers[w].timestamp = now
    /\ now' = now + 1
    /\ UNCHANGED <<products, price_history, call, writers>>
    /\ UNCHANGED runVars

---------------------------------------------------------------------------
(* The store driven call by call *)

\* add_price_record that inserts a row only when the price changed
AddPriceRecordOnlyIfChanged(name, site, price, title, url, available) ==
    /\ Len(price_history) < MaxRecords
    /\ LET prods == add_product(products, name)
           pid == ProductId(prods, name)
           changed == PriceChanged(price_history, pid, site, price)
       IN  /\ products' = prods
           /\ price_history' =
                  IF changed
                  THEN Append(price_history,
                           NewRow(price_history, pid, site, price, title, url,
                                  available, now))
                  ELSE price_history
           /\ call' = [op |-> "add_price_record", product |-> name, site |-> site,
                       price |-> price, title |-> title, url |-> url,
                       available |-> available, result |-> changed]
    /\ UNCHANGED now
    /\ UNCHANGED runVars
    /\ UNCHANGED writers

\* db.add_price_record(product_name, site, price, title, url, available)
AddPriceRecordWith(name, site, price, title, url, available) ==
    /\ Len(price_history) < MaxRecords
    /\ LET prods == add_product(products, name)
           pid == ProductId(prods, name)
       IN  /\ products' = prods
           /\ price_history' = Append(price_history,
                  NewRow(price_history, pid, site, price, title, url, available, now))
           /\ call' = [op |-> "add_price_record", product |-> name, site |-> site,
                       price |-> price, title |-> title, url |-> url,
                       available |-> available,
                       result |-> PriceChanged(price_history, pid, site, price)]
    /\ UNCHANGED now
    /\ UNCHANGED runVars
    /\ UNCHANGED writers

\* db.add_price_record(product_name, site, price, "title", "url")
AddPriceRecord(name, site, price) ==
    AddPriceRecordWith(name, site, price, "title", "url", TRUE)

\* db.check_price_drop(product_name, site, percentage_threshold, amount_threshold)
\* (a read-only query: a second query in a row would see the same store)
CheckPriceDrop(name, site, pct, amt) ==
    /\ call.op # "check_price_drop"
    /\ call' = [op |-> "check_price_drop", product |-> name, site |-> site,
                pct |-> pct, amt |-> amt,
                result |-> check_price_drop(products, price_history, name, site, pct, amt)]
    /\ UNCHANGED <<products, price_history, now>>
    /\ UNCHANGED runVars
    /\ UNCHANGED writers

StoreAdd == \E pr \in StorePairs, price \in StorePrices :
                AddPriceRecord(pr[1], pr[2], price)

StoreCheck == \E pr \in StorePairs, th \in StoreThresholds :
                CheckPriceDrop(pr[1], pr[2], th[1], th[2])

NextStore == Tick \/ StoreAdd \/ StoreCheck

SpecStore == Init /\ [][NextStore]_vars

---------------------------------------------------------------------------
(* The store recorded to and queried, call by call *)

\* what is recorded: (price, title, url, available) as scrape_product yields them
ScrapeResults ==
    { [price |-> 10000, title |-> "Apple iPhone 15 Pro", url |-> AmazonUrl,
       available |-> TRUE],
      [price |-> 9600, title |-> "Unknown Product", url |-> BestBuyUrl,
       available |-> FALSE] }

\* the queries read the store and leave it as it is: a query made right after
\* another query sees the store that query saw
QueryOps == {"get_price_history", "get_latest_prices", "check_price_drop"}

\* the add_price_record call that the query follows, if it follows one
LastAdded == IF call.op = "add_price_record" THEN <<call>> ELSE << >>

\* db.get_price_history(product_name, site, days), in a process whose time
\* zone has the given offset
GetPriceHistory(name, site, days, utc_offset) ==
    /\ call.op \notin QueryOps
    /\ call' = [op |-> "get_price_history", product |-> name, site |-> site,
                days |-> days, asked_at |-> now,
                cutoff |-> Cutoff(now, utc_offset, days), added |-> LastAdded,
                result |-> get_price_history(products, price_history, name, site,
                                             Cutoff(now, utc_offset, days))]
    /\ UNCHANGED <<products, price_history, now>>
    /\ UNCHANGED runVars
    /\ UNCHANGED writers

\* db.get_latest_prices(product_name)
GetLatestPrices(name) ==
    /\ call.op \notin QueryOps
    /\ call' = [op |-> "get_latest_prices", product |-> name, added |-> LastAdded,
                result |-> get_latest_prices(products, price_history, name)]
    /\ UNCHANGED <<products, price_history, now>>
    /\ UNCHANGED runVars
    /\ UNCHANGED writers

QueryAdd == \E pr \in StorePairs, data \in ScrapeResults :
                AddPriceRecordWith(pr[1], pr[2], data.price, data.title, data.url,
                                   data.available)

\* the windows asked for: none, and one day
HistoryDays == {0, 1}

QueryHistory == \E name \in ProductNames,
                   site \in {<< >>} \cup {<<x>> : x \in SiteNames},
                   days \in HistoryDays, utc_offset \in UtcOffsets :
                    GetPriceHistory(name, site, days, utc_offset)

QueryLatest == \E name \in ProductNames : GetLatestPrices(name)

\* db.check_price_drop(product_name, site) with the default thresholds
QueryCheckDrop == \E pr \in StorePairs :
                    /\ call.op \notin QueryOps
                    /\ CheckPriceDrop(pr[1], pr[2], 5, 1000)

NextQueries == Tick \/ QueryAdd \/ QueryHistory \/ QueryLatest \/ QueryCheckDrop

SpecQueries == Init /\ [][NextQueries]_vars

---------------------------------------------------------------------------
(* The scraper factory called on a URL *)

\* URLs given to the factory: a scheme, a host, and after the host a path and
\* query made of at most MaxTailParts parts, the first of which is a separator
UrlSchemes == {"https://", "https://www."}
UrlHosts == {"amazon.com", "BestBuy.com", "bestbuy.com", "unknown-shop.example",
             "shop.example"}
UrlSeparators == {"/", "?ref="}
UrlTailParts == UrlSeparators \cup {"amazon.com", "bestbuy.com", "item"}

UrlTails ==
    {t \in UNION {[1..n -> UrlTailParts] : n \in 0..MaxTailParts} :
        t = << >> \/ t[1] \in UrlSeparators}

Urls ==
    {<<scheme, host>> \o t : scheme \in UrlSchemes, host \in UrlHosts, t \in UrlTails}
    \cup {AmazonUrl, BestBuyUrl, UnknownUrl}

\* ScraperFactory.get_scraper(url) and ScraperFactory.get_site_name(url)
Dispatch(url) ==
    /\ call' = [op |-> "dispatch", url |-> url,
                scraper |-> get_scraper(url), site_name |-> get_site_name(url)]
    /\ UNCHANGED <<products, price_history, now>>
    /\ UNCHANGED runVars
    /\ UNCHANGED writers

NextFactory == \E url \in Urls : Dispatch(url)

SpecFactory == Init /\ [][NextFactory]_vars

---------------------------------------------------------------------------
(* Two processes on one database file: each runs the store calls of         *)
(* track_product, add_price_record and then, after a changed price,         *)
(* check_price_drop.  Every statement runs on a connection of its own       *)
(* process; add_price_record's SELECT is executed outside a transaction     *)
(* (the sqlite3 module begins one before the INSERT), so the statements of  *)
(* the two processes interleave freely.                                     *)

\* rows being written: calls that have not reached their INSERT
WritesPending == Cardinality({w \in Writers : writers[w].pc \in {"select", "insert", "execute"}})

\* add_price_record is called: product_id = self.add_product(product_name)
WriterAddProduct(w, name, site, price) ==
    /\ writers[w].pc = "idle"
    /\ Len(price_history) + WritesPending < MaxRecords
    /\ products' = add_product(products, name)
    /\ writers' = [writers EXCEPT ![w] =
           [IdleWriter EXCEPT !.pc = "select", !.product = name, !.site = site,
                              !.price = price]]
    /\ UNCHANGED <<price_history, now, call>>
    /\ UNCHANGED runVars

\* SELECT price ... ORDER BY timestamp DESC LIMIT 1; last_price_row = fetchone()
WriterSelectLast(w) ==
    /\ writers[w].pc = "select"
    /\ LET pid == ProductId(products, writers[w].product)
           scanned == OrderByTimestampDesc(price_history,
                          RowsOf(price_history, pid, writers[w].site), 1)
       IN  writers' = [writers EXCEPT
               ![w].pc = "insert",
               ![w].last_price_row =
                   IF scanned = << >> THEN << >>
                   ELSE <<price_history[scanned[1]].price>>]
    /\ UNCHANGED <<products, price_history, now, call>>
    /\ UNCHANGED runVars

\* price_changed is computed from last_price_row, and the arguments of the
\* INSERT are evaluated: datetime.now() is read
WriterReadClock(w) ==
    /\ writers[w].pc = "insert"
    /\ writers' = [writers EXCEPT
           ![w].pc = "execute",
           ![w].price_changed = \/ writers[w].last_price_row = << >>
                                \/ writers[w].last_price_row[1] # writers[w].price,
           ![w].timestamp = now]
    /\ UNCHANGED <<products, price_history, now, call>>
    /\ UNCHANGED runVars

\* cursor.execute(INSERT INTO price_history ...) takes the write lock of the
\* database file and appends the row; conn.commit(); return price_changed
WriterInsert(w) ==
    /\ writers[w].pc = "execute"
    /\ LET pid == ProductId(products, writers[w].product)
       IN  price_history' = Append(price_history,
               NewRow(price_history, pid, writers[w].site, writers[w].price,
                      "title", "url", TRUE, writers[w].timestamp))
    /\ writers' = [writers EXCEPT
           ![w].pc = IF writers[w].price_changed THEN "check" ELSE "idle",
           ![w].row = Len(price_history) + 1]
    /\ UNCHANGED <<products, now, call>>
    /\ UNCHANGED runVars

\* if price_changed: drop_info = self.db.check_price_drop(...)
WriterCheckDrop(w) ==
    /\ writers[w].pc = "check"
    /\ writers' = [writers EXCEPT
           ![w].pc = "idle",
           ![w].drop_info =
               check_price_drop(products, price_history, writers[w].product,
                   writers[w].site, WriterThresholds[1], WriterThresholds[2])]
    /\ UNCHANGED <<products, price_history, now, call>>
    /\ UNCHANGED runVars

WriterStep(w) ==
    \/ \E pr \in WriterPairs, price \in WriterPrices :
          WriterAddProduct(w, pr[1], pr[2], price)
    \/ WriterSelectLast(w)
    \/ WriterReadClock(w)
    \/ WriterInsert(w)
    \/ WriterCheckDrop(w)

NextWriters == Tick \/ \E w \in Writers : WriterStep(w)

SpecWriters == Init /\ [][NextWriters]_vars

---------------------------------------------------------------------------
(* PriceTracker: one tracking run (track_all_products) at a time *)

CurrentProduct == PRODUCTS_TO_TRACK[product_i]
CurrentUrl == CurrentProduct.urls[url_i][2]

FailureKinds == {"no_scraper", "fetch_failed", "no_price", "error"}
FailureKind(kind) == IF kind = "persistence_error" THEN "error" ELSE kind

\* AfterExcept with the try statement around the for loop
AfterExceptOutsideLoop == [pc |-> "url", step |-> Len(CurrentProduct.urls)]

\* AfterExcept with an except clause that raises again
AfterExceptReraises == [pc |-> "raised", step |-> 0]

\* where the for loop of track_product goes once an exception is caught by
\* `except Exception` (it logs and takes the next url)
AfterExcept == [pc |-> "url", step |-> 1]

\* where it goes on `continue` and at the end of the loop body
AfterBody == [pc |-> "url", step |-> 1]

\* the loop body is left, the way `to` says
LeavePair(kind, to) ==
    /\ pc' = to.pc
    /\ url_i' = url_i + to.step
    /\ attempt' = 0
    /\ soup' = << >>
    /\ product_data' = << >>
    /\ last' = kind
    /\ outcomes' = outcomes \cup ({FailureKind(kind)} \cap FailureKinds)

\* the most records a run appends: one for each configured url that has a scraper
RecordsPerCycle ==
    Cardinality({pu \in UNION {{<<p, u>> : u \in DOMAIN PRODUCTS_TO_TRACK[p].urls} :
                                  p \in DOMAIN PRODUCTS_TO_TRACK} :
                    get_scraper(PRODUCTS_TO_TRACK[pu[1]].urls[pu[2]][2]) # "None"})

\* a tracker process starts: PriceTracker() and track_all_products; the runs
\* followed are those after which the store holds MaxRecords rows at most
StartCycle(e) ==
    /\ pc = "idle"
    /\ cycles < MaxCycles
    /\ Len(price_history) + RecordsPerCycle <= MaxRecords
    /\ env' = e
    /\ pc' = "product"
    /\ product_i' = 1
    /\ all_results' = << >>
    /\ notified' = << >>
    /\ visited' = << >>
    /\ outcomes' = {}
    /\ UNCHANGED <<url_i, attempt, requests, soup, product_data, results, cycles,
                   last, rows_at_start>>
    /\ UNCHANGED <<products, price_history, now, call, writers>>

\* track_all_products calls track_product for the next product
TrackProduct ==
    /\ pc = "product"
    /\ product_i <= Len(PRODUCTS_TO_TRACK)
    /\ results' = [product |-> CurrentProduct.name, timestamp |-> now,
                   prices |-> {}, alerts |-> << >>]
    /\ url_i' = 1
    /\ pc' = "url"
    /\ UNCHANGED <<env, product_i, attempt, requests, soup, product_data,
                   all_results, notified, cycles, visited, outcomes, last,
                   rows_at_start>>
    /\ UNCHANGED <<products, price_history, now, call, writers>>

\* track_all_products returns all_results and the process ends
FinishCycle ==
    /\ pc = "product"
    /\ product_i > Len(PRODUCTS_TO_TRACK)
    /\ pc' = "idle"
    /\ cycles' = cycles + 1
    /\ env' = NoEnv
    /\ product_i' = 0
    /\ all_results' = << >>
    /\ notified' = << >>
    /\ visited' = << >>
    /\ outcomes' = {}
    /\ rows_at_start' = 0
    /\ UNCHANGED <<url_i, attempt, requests, soup, product_data, results, last>>
    /\ UNCHANGED <<products, price_history, now, call, writers>>

\* GetScraper with a request made for the url before the scraper is looked up
GetScraperAfterRequest ==
    /\ pc = "url"
    /\ url_i <= Len(CurrentProduct.urls)
    /\ visited' = Append(visited, <<product_i, url_i>>)
    /\ requests' = IF get_scraper(CurrentUrl) = "None" THEN 1 ELSE 0
    /\ rows_at_start' = Len(price_history)
    /\ IF get_scraper(CurrentUrl) = "None"
       THEN LeavePair("no_scraper", AfterBody)
       ELSE /\ pc' = "fetch"
            /\ attempt' = 0
            /\ last' = ""
            /\ UNCHANGED <<url_i, soup, product_data, outcomes>>
    /\ UNCHANGED <<env, product_i, results, all_results, notified, cycles>>
    /\ UNCHANGED <<products, price_history, now, call, writers>>

\* the loop body starts: ScraperFactory.get_scraper(url, ...)
GetScraper ==
    /\ pc = "url"
    /\ url_i <= Len(CurrentProduct.urls)
    /\ visited' = Append(visited, <<product_i, url_i>>)
    /\ requests' = 0
    /\ rows_at_start' = Len(price_history)
    /\ IF get_scraper(CurrentUrl) = "None"
       THEN LeavePair("no_scraper", AfterBody)
       ELSE /\ pc' = "fetch"
            /\ attempt' = 0
            /\ last' = ""
            /\ UNCHANGED <<url_i, soup, product_data, outcomes>>
    /\ UNCHANGED <<env, product_i, results, all_results, notified, cycles>>
    /\ UNCHANGED <<products, price_history, now, call, writers>>

\* the loop is over: track_product returns results
ReturnResults ==
    /\ pc = "url"
    /\ url_i > Len(CurrentProduct.urls)
    /\ all_results' = Append(all_results, results)
    /\ results' = << >>
    /\ product_i' = product_i + 1
    /\ url_i' = 0
    /\ pc' = "product"
    /\ last' = ""
    /\ requests' = 0
    /\ UNCHANGED <<env, attempt, soup, product_data, notified, cycles, visited,
                   outcomes, rows_at_start>>
    /\ UNCHANGED <<products, price_history, now, call, writers>>

\* fetch_page: an attempt gets a 2xx response and parses it
FetchOk(page) ==
    /\ pc = "fetch"
    /\ requests' = requests + 1
    /\ soup' = <<page>>
    /\ pc' = "extract"
    /\ UNCHANGED <<env, product_i, url_i, attempt, product_data, results,
                   all_results, notified, cycles, visited, outcomes, last,
                   rows_at_start>>
    /\ now' = AfterSleep(price_history, now)
    /\ UNCHANGED <<products, price_history, call, writers>>

\* fetch_page: an attempt raises a RequestException (timeout, connection
\* error, non-2xx status)
FetchFail ==
    /\ pc = "fetch"
    /\ requests' = requests + 1
    /\ IF LastAttempt(attempt, env.max_retries)
       THEN LeavePair("fetch_failed", AfterBody)
       ELSE /\ attempt' = attempt + 1
            /\ UNCHANGED <<pc, url_i, soup, product_data, last, outcomes>>
    /\ UNCHANGED <<env, product_i, results, all_results, notified, cycles,
                   visited, rows_at_start>>
    /\ now' = AfterSleep(price_history, now)
    /\ UNCHANGED <<products, price_history, call, writers>>

\* fetch_page: an attempt raises something that is no RequestException (the
\* parser of BeautifulSoup(response.content, 'lxml')); fetch_page and
\* scrape_product let it through to track_product
FetchRaise ==
    /\ pc = "fetch"
    /\ requests' = requests + 1
    /\ LeavePair("error", AfterExcept)
    /\ UNCHANGED <<env, product_i, results, all_results, notified, cycles,
                   visited, rows_at_start>>
    /\ now' = AfterSleep(price_history, now)
    /\ UNCHANGED <<products, price_history, call, writers>>

\* scrape_product extracts from the page
Extract ==
    /\ pc = "extract"
    /\ LET data == scrape_product(get_scraper(CurrentUrl), CurrentUrl, soup[1], now)
       IN  IF data = << >>
           THEN LeavePair("no_price", AfterBody)
           ELSE /\ product_data' = data
                /\ pc' = "store"
                /\ UNCHANGED <<url_i, attempt, soup, last, outcomes>>
    /\ UNCHANGED <<env, product_i, requests, results, all_results, notified,
                   cycles, visited, rows_at_start>>
    /\ UNCHANGED <<products, price_history, now, call, writers>>

\* AddRecord with the drop check made whether or not the price changed
AddRecordAlwaysChecks ==
    /\ pc = "store"
    /\ LET name == CurrentProduct.name
           site == get_site_name(CurrentUrl)
           data == product_data[1]
           prods == add_product(products, name)
           pid == ProductId(prods, name)
       IN  /\ products' = prods
           /\ price_history' = Append(price_history,
                  NewRow(price_history, pid, site, data.price, data.title,
                         CurrentUrl, data.available, now))
           /\ results' = [results EXCEPT !.prices =
                  {x \in @ : x[1] # site} \cup {<<site, data.price>>}]
           /\ pc' = "check"
           /\ UNCHANGED <<url_i, attempt, soup, product_data, last, outcomes>>
    /\ UNCHANGED <<env, product_i, requests, all_results, notified, cycles,
                   visited, rows_at_start>>
    /\ UNCHANGED <<now, call, writers>>

\* db.add_price_record(...) and results['prices'][site_name] = price
AddRecord ==
    /\ pc = "store"
    /\ LET name == CurrentProduct.name
           site == get_site_name(CurrentUrl)
           data == product_data[1]
           prods == add_product(products, name)
           pid == ProductId(prods, name)
       IN  /\ products' = prods
           /\ price_history' = Append(price_history,
                  NewRow(price_history, pid, site, data.price, data.title,
                         CurrentUrl, data.available, now))
           /\ results' = [results EXCEPT !.prices =
                  {x \in @ : x[1] # site} \cup {<<site, data.price>>}]
           /\ IF PriceChanged(price_history, pid, site, data.price)
              THEN /\ pc' = "check"
                   /\ UNCHANGED <<url_i, attempt, soup, product_data, last, outcomes>>
              ELSE LeavePair("stored", AfterBody)
    /\ UNCHANGED <<env, product_i, requests, all_results, notified, cycles,
                   visited, rows_at_start>>
    /\ UNCHANGED <<now, call, writers>>

\* db.add_price_record raises (sqlite3.Error): before anything is written, or
\* after add_product has committed the product row
AddRecordFails(product_committed) ==
    /\ pc = "store"
    /\ products' = IF product_committed
                   THEN add_product(products, CurrentProduct.name) ELSE products
    /\ LeavePair("persistence_error", AfterExcept)
    /\ UNCHANGED <<env, product_i, requests, results, all_results, notified,
                   cycles, visited, rows_at_start>>
    /\ UNCHANGED <<price_history, now, call, writers>>

\* db.check_price_drop(...) after a changed price
CheckDrop ==
    /\ pc = "check"
    /\ LET drop_info == check_price_drop(products, price_history,
                            CurrentProduct.name, get_site_name(CurrentUrl),
                            env.pct, env.amt)
       IN  CASE drop_info.kind = "Error" ->
                    /\ LeavePair("error", AfterExcept)
                    /\ UNCHANGED results
             [] drop_info.kind = "None" ->
                    /\ LeavePair("stored", AfterBody)
                    /\ UNCHANGED results
             [] OTHER ->
                    /\ results' = [results EXCEPT !.alerts = Append(@, drop_info)]
                    /\ pc' = "notify"
                    /\ UNCHANGED <<url_i, attempt, soup, product_data, last, outcomes>>
    /\ UNCHANGED <<env, product_i, requests, all_results, notified, cycles,
                   visited, rows_at_start>>
    /\ UNCHANGED <<products, price_history, now, call, writers>>

\* db.check_price_drop raises (sqlite3.Error)
CheckDropFails ==
    /\ pc = "check"
    /\ LeavePair("persistence_error", AfterExcept)
    /\ UNCHANGED <<env, product_i, requests, results, all_results, notified,
                   cycles, visited, rows_at_start>>
    /\ UNCHANGED <<products, price_history, now, call, writers>>

\* Notify with a failed send that ends the loop over the product's urls
NotifyFailureEndsLoop(sent) ==
    /\ pc = "notify"
    /\ notified' = Append(notified,
           [alert |-> results.alerts[Len(results.alerts)], sent |-> sent])
    /\ LeavePair("alert", IF sent THEN AfterBody ELSE AfterExceptOutsideLoop)
    /\ UNCHANGED <<env, product_i, requests, results, all_results, cycles,
                   visited, rows_at_start>>
    /\ UNCHANGED <<products, price_history, now, call, writers>>

\* notifier.send_price_drop_alert(drop_info): returns whether the mail was
\* sent (it catches what _send_email raises and returns False); the value
\* returned is not looked at
Notify(sent) ==
    /\ pc = "notify"
    /\ notified' = Append(notified,
           [alert |-> results.alerts[Len(results.alerts)], sent |-> sent])
    /\ LeavePair("alert", AfterBody)
    /\ UNCHANGED <<env, product_i, requests, results, all_results, cycles,
                   visited, rows_at_start>>
    /\ UNCHANGED <<products, price_history, now, call, writers>>

Fetch == FetchFail \/ FetchRaise \/ \E page \in Pages : FetchOk(page)

Next ==
    \/ \E e \in Environments : StartCycle(e)
    \/ TrackProduct
    \/ FinishCycle
    \/ GetScraper
    \/ ReturnResults
    \/ Fetch
    \/ Extract
    \/ AddRecord
    \/ \E committed \in BOOLEAN : AddRecordFails(committed)
    \/ CheckDrop
    \/ CheckDropFails
    \/ \E sent \in BOOLEAN : Notify(sent)

Spec == Init /\ [][Next]_vars

---------------------------------------------------------------------------
(* track_product called on one product configuration *)

\* a second listing of the product on amazon.com
AmazonRenewedUrl == <<"https://www.", "amazon.com", "/dp/B0CHWRXH8B">>

\* entries of PRODUCTS_TO_TRACK: a product with the urls config.py gives it,
\* and the product with two listings of one site under two site keys
ProductConfigs ==
    { [name |-> "iPhone 15 Pro",
       urls |-> << <<"amazon", AmazonUrl>>, <<"bestbuy", BestBuyUrl>> >>],
      [name |-> "iPhone 15 Pro",
       urls |-> << <<"amazon", AmazonUrl>>, <<"amazon_renewed", AmazonRenewedUrl>> >>] }

\* what a step of track_product leaves alone
trackRest == <<pc, env, product_i, attempt, requests, soup, product_data,
               all_results, notified, cycles, visited, outcomes, last,
               rows_at_start, writers>>

\* track_product(product_name, urls) is called (the call before it has
\* returned): results is set up.  call.succeeded lists, for the claims, the
\* urls whose scrape and add_price_record went through.
TrackProductCall(cfg) ==
    /\ call.op = "track_product" => url_i > Len(call.urls)
    /\ Len(price_history) + Len(cfg.urls) <= MaxRecords
    /\ call' = [op |-> "track_product", product_name |-> cfg.name,
                urls |-> cfg.urls, succeeded |-> << >>]
    /\ results' = [product |-> cfg.name, timestamp |-> now, prices |-> {},
                   alerts |-> << >>]
    /\ url_i' = 1
    /\ UNCHANGED <<products, price_history, now>>
    /\ UNCHANGED trackRest

\* the body of `for site_key, url in urls.items()` for the next url; fetched
\* is the page fetch_page returned, << >> when it returned None
TrackUrl(fetched) ==
    /\ call.op = "track_product"
    /\ url_i <= Len(call.urls)
    /\ LET url == call.urls[url_i][2]
           scraper == get_scraper(url)
           time == AfterSleep(price_history, now)
           data == IF scraper = "None" \/ fetched = << >> THEN << >>
                   ELSE scrape_product(scraper, url, fetched[1], time)
       IN  IF data = << >>
           THEN /\ now' = IF scraper = "None" THEN now ELSE time
                /\ UNCHANGED <<products, price_history, results, call>>
           ELSE LET site_name == get_site_name(url)
                    prods == add_product(products, call.product_name)
                    pid == ProductId(prods, call.product_name)
                    ph == Append(price_history,
                              NewRow(price_history, pid, site_name, data[1].price,
                                     data[1].title, url, data[1].available, time))
                    price_changed == PriceChanged(price_history, pid, site_name,
                                                  data[1].price)
                    drop_info == IF price_changed
                                 THEN check_price_drop(prods, ph, call.product_name,
                                                       site_name, 5, 1000)
                                 ELSE NoneValue
                IN  /\ now' = time
                    /\ products' = prods
                    /\ price_history' = ph
                    /\ results' = [results EXCEPT
                           !.prices = {x \in @ : x[1] # site_name}
                                      \cup {<<site_name, data[1].price>>},
                           !.alerts = IF drop_info.kind = "DropEvent"
                                      THEN Append(@, drop_info) ELSE @]
                    /\ call' = [call EXCEPT !.succeeded = Append(@,
                           [site_key |-> call.urls[url_i][1], url |-> url,
                            price |-> data[1].price, drop_info |-> drop_info])]
    /\ url_i' = url_i + 1
    /\ UNCHANGED trackRest

NextTrack ==
    \/ \E cfg \in ProductConfigs : TrackProductCall(cfg)
    \/ \E fetched \in {<< >>} \cup {<<page>> : page \in Pages} : TrackUrl(fetched)

SpecTrack == Init /\ [][NextTrack]_vars

---------------------------------------------------------------------------
(* The data model's reading of a (product, site) partition, stated apart   *)
(* from the queries: ordered by observed-at timestamp, ties broken by      *)
(* insertion order.                                                        *)

RecordsOfPair(name, site) ==
    {i \in DOMAIN price_history :
        /\ price_history[i].product_id \in DOMAIN products
        /\ products[price_history[i].product_id] = name
        /\ price_history[i].site = site}

MoreRecent(i, j) ==
    \/ price_history[i].timestamp > price_history[j].timestamp
    \/ price_history[i].timestamp = price_history[j].timestamp /\ i > j

MostRecentOf(S) == CHOOSE i \in S : \A j \in S \ {i} : MoreRecent(i, j)

CurrentOf(name, site) == MostRecentOf(RecordsOfPair(name, site))
PreviousOf(name, site) ==
    MostRecentOf(RecordsOfPair(name, site) \ {CurrentOf(name, site)})

\* the last direct call was a check_price_drop on a pair with two records or more
CheckedWithTwo ==
    /\ call.op = "check_price_drop"
    /\ Cardinality(RecordsOfPair(call.product, call.site)) >= 2

CheckedCurrent == price_history[CurrentOf(call.product, call.site)].price
CheckedPrevious == price_history[PreviousOf(call.product, call.site)].price

\* the last direct call was an add_price_record; its row is the newest row
Added == call.op = "add_price_record"

\* the rows of the added row's pair that were there before the call
AddedBefore == RecordsOfPair(call.product, call.site) \ {Len(price_history)}

---------------------------------------------------------------------------
(* Claims on the price store *)

\* C1: with two records or more of the pair and a positive previous price,
\* check_price_drop returns a DropEvent exactly when previous - current >=
\* amount_threshold or 100 * (previous - current) / previous >=
\* percentage_threshold, taken on the two most recent records of the pair;
\* otherwise it returns None.
C1_DropIffEitherThreshold ==
    (CheckedWithTwo /\ CheckedPrevious > 0) =>
        LET drop == CheckedPrevious - CheckedCurrent
            qualifies == \/ drop >= call.amt
                         \/ 100 * drop >= call.pct * CheckedPrevious
        IN  /\ qualifies => /\ call.result.kind = "DropEvent"
                            /\ call.result.previous_price = CheckedPrevious
                            /\ call.result.current_price = CheckedCurrent
                            /\ call.result.amount_drop = drop
            /\ ~qualifies => call.result = NoneValue

\* a drop reported on the percentage alone: 100.00 -> 96.00 with {pct=4, amount=10.00}
C1_Witness ==
    /\ CheckedWithTwo
    /\ CheckedPrevious = 10000 /\ CheckedCurrent = 9600
    /\ call.pct = 4 /\ call.amt = 1000
    /\ call.result.kind = "DropEvent"

\* C2: check_price_drop never returns a DropEvent when the current price is
\* greater than the previous price, whatever the two thresholds are.
C2_NoDropWhenPriceRose ==
    (CheckedWithTwo /\ CheckedCurrent > CheckedPrevious) =>
        call.result.kind # "DropEvent"

\* C4: add_price_record on a pair that has no record returns changed = TRUE,
\* whatever records the same product has at other sites and other products
\* have at the same site.
C4_FirstRecordChanged ==
    (Added /\ AddedBefore = {}) => call.result = TRUE

\* a first record of a pair whose product has a record at another site and
\* whose site has a record of another product, all at the same price
C4_Witness ==
    /\ Added /\ AddedBefore = {}
    /\ \E i, j \in DOMAIN price_history :
          /\ products[price_history[i].product_id] = call.product
          /\ price_history[i].site # call.site
          /\ price_history[i].price = call.price
          /\ products[price_history[j].product_id] # call.product
          /\ price_history[j].site = call.site
          /\ price_history[j].price = call.price

---------------------------------------------------------------------------
(* Claims on the tracking run *)

RECURSIVE PairsFrom(_)
\* the (product, url) positions of PRODUCTS_TO_TRACK from product p on, in order
PairsFrom(p) ==
    IF p > Len(PRODUCTS_TO_TRACK) THEN << >>
    ELSE [u \in 1..Len(PRODUCTS_TO_TRACK[p].urls) |-> <<p, u>>] \o PairsFrom(p + 1)

ConfiguredPairs == PairsFrom(1)

\* the site of the pair entered last
VisitedSite ==
    get_site_name(PRODUCTS_TO_TRACK[visited[Len(visited)][1]]
                      .urls[visited[Len(visited)][2]][2])

\* track_all_products is about to return
RunComplete == pc = "product" /\ product_i > Len(PRODUCTS_TO_TRACK)

\* every DropEvent of the run so far: in the summaries and handed to the notifier
AlertsOfRun ==
    UNION {{all_results[k].alerts[i] : i \in DOMAIN all_results[k].alerts} :
              k \in DOMAIN all_results}
    \cup (IF results = << >> THEN {}
          ELSE {results.alerts[i] : i \in DOMAIN results.alerts})
    \cup {notified[i].alert : i \in DOMAIN notified}

\* C3: check_price_drop returns None for a pair with fewer than two records,
\* whatever the thresholds and whatever other pairs hold; so no DropEvent of a
\* run, in a summary or handed to the notifier, is for such a pair.
C3_NoDropBelowTwoRecords ==
    /\ \A name \in ProductNames, site \in SiteNames, th \in StoreThresholds :
          Cardinality(RecordsOfPair(name, site)) < 2 =>
              check_price_drop(products, price_history, name, site, th[1], th[2])
                  = NoneValue
    /\ \A a \in AlertsOfRun : Cardinality(RecordsOfPair(a.product, a.site)) >= 2
    /\ pc = "notify" =>
          Cardinality(RecordsOfPair(CurrentProduct.name, get_site_name(CurrentUrl))) >= 2

\* the first record of a pair has just been checked, under negative
\* thresholds, while another pair holds a record
C3_Witness ==
    /\ pc = "url" /\ last = "stored"
    /\ Len(price_history) = rows_at_start + 1
    /\ env.amt < 0
    /\ \E i \in DOMAIN price_history :
          LET name == products[price_history[i].product_id]
              site == price_history[i].site
          IN  /\ i = Len(price_history)
              /\ Cardinality(RecordsOfPair(name, site)) = 1
              /\ \E j \in DOMAIN price_history : price_history[j].site # site

\* C7: when every request for a URL fails, fetch_page makes exactly
\* max_retries requests and then fails, and no record is persisted for that
\* URL in that run.
C7_ExactlyMaxRetriesAttempts ==
    /\ last = "fetch_failed" =>
          /\ requests = env.max_retries
          /\ Len(price_history) = rows_at_start
          /\ \A x \in results.prices : x[1] # VisitedSite
    /\ pc = "fetch" => requests = attempt /\ requests < env.max_retries

\* three failed requests with MAX_RETRIES = 3
C7_Witness ==
    /\ last = "fetch_failed"
    /\ env.max_retries = 3
    /\ requests = 3
    /\ price_history # << >>

\* C8: no record is persisted from a page whose extracted price is None:
\* scrape_product returns None and the store is as it was when the pair began.
C8_NoRecordWithoutPrice ==
    /\ last = "no_price" => Len(price_history) = rows_at_start
    /\ pc = "store" =>
          /\ extract_price(get_scraper(CurrentUrl), soup[1]) # << >>
          /\ product_data[1].price = extract_price(get_scraper(CurrentUrl), soup[1])[1]
          /\ Len(price_history) = rows_at_start
    /\ pc \in {"check", "notify"} =>
          /\ Len(price_history) = rows_at_start + 1
          /\ price_history[Len(price_history)].price =
                extract_price(get_scraper(CurrentUrl), soup[1])[1]
    /\ pc \in {"fetch", "extract"} => Len(price_history) = rows_at_start

\* a page with price elements that hold no number left the store unchanged
C8_Witness ==
    /\ last = "no_price"
    /\ price_history # << >>
    /\ Len(price_history) = rows_at_start

\* C9: a failure at a pair (no scraper, fetch failure, no price, an exception)
\* never keeps a later pair from being processed: the pairs are entered in
\* the configured order, control stays inside the two loops (at a point from
\* which the run goes on), and the run ends only after every configured pair
\* was entered.
C9_EveryPairVisited ==
    /\ Len(visited) <= Len(ConfiguredPairs)
    /\ visited = SubSeq(ConfiguredPairs, 1, Len(visited))
    /\ RunComplete => visited = ConfiguredPairs
    /\ (pc = "url" /\ last # "") =>
          /\ product_i = visited[Len(visited)][1]
          /\ url_i = visited[Len(visited)][2] + 1
    /\ pc \in {"idle", "product", "url", "fetch", "extract", "store", "check",
              "notify"}

\* a run that ends after a failed fetch and an unresolvable URL at the first
\* product, and an exception at the second
C9_Witness ==
    /\ RunComplete
    /\ outcomes = {"fetch_failed", "no_scraper", "error"}

C11_DriverAlwaysReturnsSummaries ==
    /\ pc \in {"idle", "product", "url", "fetch", "extract", "store", "check",
              "notify"}
    /\ pc \in {"url", "fetch", "extract", "store", "check", "notify"} =>
          /\ DOMAIN results = {"product", "timestamp", "prices", "alerts"}
          /\ results.product = CurrentProduct.name
          /\ Len(all_results) = product_i - 1
    /\ pc = "product" => Len(all_results) = product_i - 1
    /\ \A k \in DOMAIN all_results :
          /\ DOMAIN all_results[k] = {"product", "timestamp", "prices", "alerts"}
          /\ all_results[k].product = PRODUCTS_TO_TRACK[k].name
    /\ RunComplete => Len(all_results) = Len(PRODUCTS_TO_TRACK)

\* a run about to return whose first summary is empty after an exception and
\* whose second summary holds a DropEvent the notifier failed to send
C11_Witness ==
    /\ RunComplete
    /\ "error" \in outcomes
    /\ all_results[1].prices = {} /\ all_results[1].alerts = << >>
    /\ all_results[2].alerts # << >>
    /\ \E i \in DOMAIN notified : ~notified[i].sent

---------------------------------------------------------------------------
(* Claims on the scraper factory *)

\* the spellings of the registered site patterns that occur in the URLs
RegisteredSpellings == {"amazon.com", "bestbuy.com", "BestBuy.com"}

Dispatched == call.op = "dispatch"

\* the host of a URL: the parts after the scheme, up to the path or query
HostOf(url) ==
    LET stops == {i \in 2..Len(url) : url[i] \notin UrlHosts}
        stop == IF stops = {} THEN Len(url) + 1
                ELSE CHOOSE i \in stops : \A j \in stops : i <= j
    IN  SubSeq(url, 2, stop - 1)

HasPattern(parts) == \E i \in DOMAIN parts : parts[i] \in RegisteredSpellings

\* C12: for a URL that holds no registered site pattern get_scraper returns
\* None and get_site_name returns "Unknown"; and for every URL get_scraper
\* returns None exactly when get_site_name returns "Unknown".
C12_NoneIffUnknown ==
    Dispatched =>
        /\ ~HasPattern(call.url) =>
              call.scraper = "None" /\ call.site_name = "Unknown"
        /\ call.scraper = "None" <=> call.site_name = "Unknown"

\* https://unknown-shop.example/item was dispatched
C12_Witness ==
    /\ Dispatched
    /\ call.url = UnknownUrl
    /\ call.scraper = "None" /\ call.site_name = "Unknown"

\* a URL whose pattern is spelt with capitals was given a scraper and a site
C12_WitnessCapitals ==
    /\ Dispatched
    /\ \E i \in DOMAIN call.url : call.url[i] = "BestBuy.com"
    /\ call.scraper = "BestBuyScraper" /\ call.site_name = "Best Buy"

\* C13: a URL whose host holds no registered pattern resolves to None and
\* "Unknown", even when a registered pattern occurs in its path or query.
C13_DispatchByHostOnly ==
    (Dispatched /\ ~HasPattern(HostOf(call.url))) =>
        call.scraper = "None" /\ call.site_name = "Unknown"

---------------------------------------------------------------------------
(* Claims on two processes that use one store *)

\* the store as it was when row `row` had just been appended
StoreUpTo(row) == SubSeq(price_history, 1, row)

\* the process has returned from add_price_record, with its row appended
Inserted(w) == writers[w].row # 0 /\ writers[w].pc \in {"check", "idle"}

\* the process has returned from the check_price_drop that followed
CheckedAfterInsert(w) ==
    writers[w].row # 0 /\ writers[w].pc = "idle" /\ writers[w].price_changed

\* C14: add_price_record's read of the latest record and its append are one
\* atomic step per pair: the value returned is the one computed on the store
\* as it is when the row is appended, so two processes that record the same
\* price on a pair without records do not both return changed = TRUE.
C14_ReadAndAppendAtomic ==
    \A w \in Writers :
        Inserted(w) =>
            writers[w].price_changed =
                PriceChanged(StoreUpTo(writers[w].row - 1),
                             ProductId(products, writers[w].product),
                             writers[w].site, writers[w].price)

\* C15: the check_price_drop that follows add_price_record in a process is
\* computed from the row that process appended and the record before it: a
\* row appended to the pair by another process between the two calls is
\* neither the current nor the previous price of the result.
C15_DropFromOwnRecord ==
    \A w \in Writers :
        CheckedAfterInsert(w) =>
            writers[w].drop_info =
                check_price_drop(products, StoreUpTo(writers[w].row),
                    writers[w].product, writers[w].site,
                    WriterThresholds[1], WriterThresholds[2])

---------------------------------------------------------------------------
(* Claims on the queries of the store *)

\* a query was made right after an add_price_record call
QueriedAfterAdd(op) == call.op = op /\ call.added # << >>

\* Python's == between the value read back and the value recorded: a bool is
\* equal to the integer 1 or 0 that stands for it
EqualsBool(read, recorded) == read = (IF recorded THEN 1 ELSE 0)

InWindow ==
    {i \in DOMAIN price_history :
        /\ price_history[i].product_id \in DOMAIN products
        /\ products[price_history[i].product_id] = call.product
        /\ call.site # << >> => price_history[i].site = call.site[1]
        /\ price_history[i].timestamp >= call.asked_at - call.days * DayLength}

\* C21: get_price_history(product, site, days) returns exactly the records
\* of the product (of the site, when one is given) whose timestamp is at or
\* after now - days, newest first: none of them is missing and none older.
C21_HistoryIsTheWindow ==
    call.op = "get_price_history" =>
        /\ Len(call.result) = Cardinality(InWindow)
        /\ \A i \in InWindow : \E k \in DOMAIN call.result :
              /\ call.result[k].timestamp = price_history[i].timestamp
              /\ call.result[k].site = price_history[i].site
              /\ call.result[k].price = price_history[i].price
        /\ \A k, l \in DOMAIN call.result :
              k < l => call.result[k].timestamp >= call.result[l].timestamp

\* the step made a call on the store (a call that repeats the previous call
\* with the same result is not told apart from no call)
CallMade == call.op = call'.op => call # call'

\* C22: the price records are append-only.  A step that changes the list of
\* records is an add_price_record call, and it leaves every record that
\* existed as it was and adds exactly one; every add_price_record call adds
\* one record, also when it reports the price as unchanged; check_price_drop,
\* get_latest_prices and get_price_history leave the records as they are.
C22_RecordsAppendOnly ==
    [][ /\ Len(price_history') >= Len(price_history)
        /\ SubSeq(price_history', 1, Len(price_history)) = price_history
        /\ price_history' # price_history =>
               /\ Len(price_history') = Len(price_history) + 1
               /\ call'.op = "add_price_record"
        /\ (call'.op = "add_price_record" /\ CallMade) =>
               Len(price_history') = Len(price_history) + 1
        /\ (call'.op \in QueryOps /\ CallMade) =>
               /\ price_history' = price_history
               /\ products' = products ]_vars

\* a record was added for a price that the pair already had
C22_Witness ==
    /\ Len(price_history) >= 2
    /\ call.op = "add_price_record"
    /\ call.result = FALSE
    /\ price_history[Len(price_history)].price = call.price
    /\ \E i \in 1..(Len(price_history) - 1) :
           /\ price_history[i].site = call.site
           /\ price_history[i].price = call.price
           /\ price_history[i].product_id = price_history[Len(price_history)].product_id

\* the url of a configured (product, url) position
UrlOfPair(pu) == PRODUCTS_TO_TRACK[pu[1]].urls[pu[2]][2]

\* the summaries of the run so far: those returned and the one being built
SummariesOfRun ==
    {all_results[k] : k \in DOMAIN all_results}
    \cup (IF results = << >> THEN {} ELSE {results})

\* C23: a url that no scraper handles is skipped: no request is made for it,
\* no record is added, the summary gets no price and no alert for it, and
\* the run goes on with the next configured pair.
C23_NoStrategySkipped ==
    /\ last = "no_scraper" =>
          /\ get_scraper(UrlOfPair(visited[Len(visited)])) = "None"
          /\ requests = 0
          /\ Len(price_history) = rows_at_start
          /\ pc = "url"
          /\ product_i = visited[Len(visited)][1]
          /\ url_i = visited[Len(visited)][2] + 1
    /\ \A k \in DOMAIN visited :
          get_scraper(UrlOfPair(visited[k])) = "None" =>
              /\ \A r \in SummariesOfRun :
                    /\ \A x \in r.prices : x[1] # get_site_name(UrlOfPair(visited[k]))
                    /\ \A i \in DOMAIN r.alerts :
                          r.alerts[i].site # get_site_name(UrlOfPair(visited[k]))
              /\ \A i \in DOMAIN price_history :
                    price_history[i].site # get_site_name(UrlOfPair(visited[k]))
              /\ k < Len(visited) => visited[k + 1] = ConfiguredPairs[k + 1]
              /\ RunComplete => visited = ConfiguredPairs

\* the pair after a url without a scraper is being fetched, the url before it
\* having been recorded
C23_Witness ==
    /\ pc = "fetch"
    /\ Len(visited) >= 2
    /\ get_scraper(UrlOfPair(visited[Len(visited) - 1])) = "None"
    /\ Len(price_history) = rows_at_start
    /\ \E x \in all_results[1].prices : x[1] = "Amazon"

\* the record added last was added with a price that differs from the price
\* its pair had before
LastRecordChanged ==
    LET n == Len(price_history)
    IN  PriceChanged(SubSeq(price_history, 1, n - 1), price_history[n].product_id,
                     price_history[n].site, price_history[n].price)

C25_SummaryHasEverySuccess ==
    call.op = "track_product" =>
        \A k \in DOMAIN call.succeeded :
            /\ <<get_site_name(call.succeeded[k].url), call.succeeded[k].price>>
                  \in results.prices
            /\ call.succeeded[k].drop_info.kind = "DropEvent" =>
                  \E i \in DOMAIN results.alerts :
                      results.alerts[i] = call.succeeded[k].drop_info

\* the products table holds no name twice, every record is of a product of
\* the table, and a process that is past add_product finds its product there
OneProductPerName ==
    /\ \A i, j \in DOMAIN products : products[i] = products[j] => i = j
    /\ \A i \in DOMAIN price_history : price_history[i].product_id \in DOMAIN products
    /\ \A w \in Writers :
          writers[w].product # "" =>
              Cardinality({i \in DOMAIN products : products[i] = writers[w].product}) = 1

\* C26: under every interleaving of add_price_record calls, there is exactly
\* one product for every name a call was made with, every record refers to
\* a product of the table; a product is never removed or renamed, and
\* it is added by a call of add_price_record for its name, made when the
\* table had no product of that name.
C26_OneProductPerName ==
    /\ []OneProductPerName
    /\ [][ /\ Len(products') <= Len(products) + 1
           /\ SubSeq(products', 1, Len(products)) = products
           /\ products' # products =>
                  \E w \in Writers :
                      /\ writers[w].pc = "idle"
                      /\ writers'[w].pc = "select"
                      /\ writers'[w].product = products'[Len(products')]
                      /\ ~HasProduct(products, writers'[w].product) ]_vars

\* two processes are inside add_price_record for the same name, both past
\* add_product and neither yet at its INSERT, with one product in the table
C26_Witness ==
    /\ writers[1].pc \in {"select", "insert", "execute"}
    /\ writers[2].pc \in {"select", "insert", "execute"}
    /\ writers[1].product = writers[2].product
    /\ price_history = << >>
    /\ products = <<writers[1].product>>

---------------------------------------------------------------------------
(* Claims on what a tracking run persists *)

\* what the selectors and fallbacks of a scraper yield on a page, in the
\* order they are tried: the number each one parses to, << >> when it has none
CandidateValues(scraper, page) ==
    [i \in DOMAIN page.price_elements |-> ParsePrice(page.price_elements[i])]
    \o (IF scraper = "BestBuyScraper" /\ page.meta_price # Absent
        THEN <<ParseFloat(page.meta_price)>> ELSE << >>)

RECURSIVE FirstNonNegative(_)
\* the first of the values that is a number and not negative
FirstNonNegative(values) ==
    IF values = << >> THEN << >>
    ELSE IF Head(values) # << >> /\ Head(values)[1] >= 0 THEN Head(values)
    ELSE FirstNonNegative(Tail(values))

\* C27: on every page fetched, extract_price of the url's scraper returns the
\* value of the first selector or fallback, in their fixed order, that parses
\* as a non-negative number, and None when none does; so it never returns a
\* negative number.
C27_FirstNonNegativeCandidate ==
    pc = "extract" =>
        /\ extract_price(get_scraper(CurrentUrl), soup[1]) =
              FirstNonNegative(CandidateValues(get_scraper(CurrentUrl), soup[1]))
        /\ extract_price(get_scraper(CurrentUrl), soup[1]) # << >> =>
              extract_price(get_scraper(CurrentUrl), soup[1])[1] >= 0

\* C28: for every url that has a scraper, scrape_product calls fetch_page
\* once and fetch_page makes between 1 and max_retries requests: one request
\* for each attempt of its loop, none after the first attempt that gets a
\* page, and it gives the url up as not fetched only when max_retries
\* requests have failed.
C28_RequestsWithinRetries ==
    /\ [](/\ pc = "fetch" => requests = attempt /\ requests < env.max_retries
          /\ pc \in {"extract", "store", "check", "notify"} =>
                requests >= 1 /\ requests <= env.max_retries
          /\ (pc = "url" /\ last \notin {"", "no_scraper"}) =>
                requests >= 1 /\ requests <= env.max_retries
          /\ last = "fetch_failed" => requests = env.max_retries)
    /\ [][ /\ pc \in {"extract", "store", "check", "notify"} =>
                requests' = requests
           /\ pc = "fetch" =>
                /\ requests' = requests + 1
                /\ soup' # << >> => pc' = "extract"
                /\ pc' = "fetch" => soup' = << >> /\ attempt' = attempt + 1 ]_vars

\* the second of three attempts got the page, and its price is about to be
\* recorded: no third request was made
C28_Witness ==
    /\ pc = "store"
    /\ env.max_retries = 3
    /\ requests = 2
    /\ price_history # << >>

\* C29: check_price_drop does not fail on a pair whose two most recent
\* records have prices >= 0, a previous price of 0 included: it returns None
\* or a DropEvent, whatever the thresholds; so the drop check of a tracking
\* run, made after such records, does not end in an error.
C29_CheckDropTotal ==
    /\ \A name \in ProductNames, site \in SiteNames, th \in StoreThresholds :
          LET prices == SelectPrices(products, price_history, name, site)
          IN  (\A k \in DOMAIN prices : price_history[prices[k]].price >= 0) =>
                  check_price_drop(products, price_history, name, site,
                                   th[1], th[2]).kind \in {"None", "DropEvent"}
    /\ (pc = "check" /\ \A i \in DOMAIN price_history : price_history[i].price >= 0) =>
          check_price_drop(products, price_history, CurrentProduct.name,
                           get_site_name(CurrentUrl), env.pct, env.amt).kind
              \in {"None", "DropEvent"}

\* C17: every row of price_history has a price >= 0, after any number of
\* tracking runs and whatever the extraction returns from a fetched page.
C17_NoNegativePrice ==
    \A i \in DOMAIN price_history : price_history[i].price >= 0

---------------------------------------------------------------------------
(* Claims on the timestamps of the records *)

\* C18: for each pair the timestamps of the records are non-decreasing in
\* insertion order: add_price_record never persists a record whose timestamp
\* is earlier than that of a record the pair already has.
C18_TimestampsInInsertionOrder ==
    \A i, j \in DOMAIN price_history :
        (/\ i < j
         /\ price_history[i].product_id = price_history[j].product_id
         /\ price_history[i].site = price_history[j].site) =>
            price_history[i].timestamp <= price_history[j].timestamp

\* C30: the queries agree on the most recent record of a pair: the price
\* get_latest_prices reports for a site is the price of the record that
\* check_price_drop takes as the current one, which is the record the next
\* add_price_record compares its price with.
C30_QueriesAgreeOnMostRecent ==
    \A name \in ProductNames, site \in SiteNames :
        LET prices == SelectPrices(products, price_history, name, site)
            latest == get_latest_prices(products, price_history, name)
        IN  prices # << >> =>
                /\ site \in DOMAIN latest
                /\ latest[site].price = price_history[prices[1]].price
                /\ \A price \in WriterPrices :
                      PriceChanged(price_history, ProductId(products, name), site, price)
                          = (price # price_history[prices[1]].price)

---------------------------------------------------------------------------
(* Claims on the notifier *)

\* the DropEvents in the summaries of the run: returned by track_product, or
\* in the summary being built
AlertsInSummaries ==
    UNION {{all_results[k].alerts[i] : i \in DOMAIN all_results[k].alerts} :
              k \in DOMAIN all_results}
    \cup (IF results = << >> THEN {}
          ELSE {results.alerts[i] : i \in DOMAIN results.alerts})

\* send_price_drop_alert returns, and it has failed
NotifierFails ==
    /\ pc = "notify"
    /\ Len(notified') = Len(notified) + 1
    /\ ~notified'[Len(notified')].sent

\* C19: when send_price_drop_alert fails, the records and the products are
\* left as they are, the summary keeps the DropEvent, and the loop goes on
\* with the next url of the same product in the same process; every DropEvent
\* whose notification failed is in a summary of the run.
C19_NotifierFailureIsNotFatal ==
    /\ [][NotifierFails =>
            /\ price_history' = price_history
            /\ products' = products
            /\ results' = results
            /\ results.alerts[Len(results.alerts)] = notified'[Len(notified')].alert
            /\ all_results' = all_results
            /\ pc' = "url"
            /\ product_i' = product_i
            /\ url_i' = url_i + 1
            /\ env' = env]_vars
    /\ [](\A i \in DOMAIN notified :
             ~notified[i].sent => notified[i].alert \in AlertsInSummaries)

\* a run about to return after a failed notification at the first pair: the
\* pair after it was entered, and the DropEvent is in the first summary
C19_Witness ==
    /\ RunComplete
    /\ notified # << >>
    /\ ~notified[1].sent
    /\ notified[1].alert.site = "Amazon"
    /\ <<notified[1].alert>> = all_results[1].alerts
    /\ visited = ConfiguredPairs

===========================================================================
